---- MODULE Spec2Model ----
(***************************************************************************)
(* Workspace project discovery (scripts/utils/task_utils.py,               *)
(* discover_projects) and changed-file to project mapping                  *)
(* (scripts/run_tasks_in_changed_agents.py, get_changed_projects).         *)
(*                                                                         *)
(* Strings are sequences of one-character strings, so that splitting on    *)
(* "/", wildcard detection and fnmatch are computed and not assumed.       *)
(* A pathlib.Path is the sequence of its parts (Path.parts); an absolute   *)
(* path has the root part "/" first.                                       *)
(***************************************************************************)
EXTENDS Integers, Sequences, FiniteSets, TLC

\* ------------------------------------------------------------------ bounds
MaxMembers == 2
MaxExclude == 1
MaxChanged == 2

\* ------------------------------------------------------- generic helpers
Range(s) == {s[i] : i \in 1..Len(s)}

IsPrefix(s, t) == Len(s) <= Len(t) /\ SubSeq(t, 1, Len(s)) = s

SeqsUpTo(S, n) == UNION {[1..k -> S] : k \in 0..n}

\* every listing order of a finite set
Orderings(S) ==
  {f \in [1..Cardinality(S) -> S] : \A i, j \in 1..Cardinality(S) : i # j => f[i] # f[j]}

\* --------------------------------------------------------------- pathlib
\* str.split("/"): the segments between separators, empty ones included
RECURSIVE SplitSlash(_)
SplitSlash(s) ==
  IF s = <<>> THEN << <<>> >>
  ELSE LET rest == SplitSlash(Tail(s))
       IN  IF Head(s) = "/" THEN << <<>> >> \o rest
           ELSE << <<Head(s)>> \o Head(rest) >> \o Tail(rest)

KeepSegment(seg) == seg # <<>> /\ seg # <<".">>

\* pathlib.Path(s).parts: empty and "." segments dropped, root part first
PathOf(s) ==
  LET segs == SelectSeq(SplitSlash(s), KeepSegment)
  IN  IF s # <<>> /\ Head(s) = "/" THEN << <<"/">> >> \o segs ELSE segs

\* Path.is_absolute()
is_absolute(path) == path # <<>> /\ Head(path) = <<"/">>

\* Path.__truediv__: an absolute right operand replaces the left one
JoinPath(left, right) == IF is_absolute(right) THEN right ELSE left \o right

\* str(Path): the parts joined by "/"
RECURSIVE JoinSlash(_)
JoinSlash(parts) ==
  IF parts = <<>> THEN <<>>
  ELSE IF Len(parts) = 1 THEN Head(parts)
  ELSE Head(parts) \o <<"/">> \o JoinSlash(Tail(parts))

StrOf(path) ==
  IF path = <<>> THEN <<".">>
  ELSE IF is_absolute(path) THEN <<"/">> \o JoinSlash(Tail(path))
  ELSE JoinSlash(path)

\* a raw string comparison in place of the component-wise one
relative_to_RawPrefix(path, other) == IsPrefix(StrOf(other), StrOf(path))

\* Path.relative_to(other) succeeds (does not raise ValueError) exactly when
\* other's parts are the leading parts of path
relative_to(path, other) == IsPrefix(other, path)

\* ------------------------------------------------------- fnmatch and glob
\* index of the "]" closing a character class opened at pat[1] = "[", or 0.
\* A "]" right after "[" is a class member, as in fnmatch.translate.
RECURSIVE ClassEndFrom(_, _)
ClassEndFrom(pat, j) ==
  IF j > Len(pat) THEN 0
  ELSE IF pat[j] = "]" THEN j
  ELSE ClassEndFrom(pat, j + 1)

ClassEnd(pat) == ClassEndFrom(pat, 3)

\* fnmatch.fnmatchcase(name, pat) for patterns over "*", "?", "[seq]" and
\* literal characters (no "!" negation and no "-" range occur in the inputs)
RECURSIVE fnmatch(_, _)
fnmatch(name, pat) ==
  IF pat = <<>> THEN name = <<>>
  ELSE IF Head(pat) = "*"
    THEN fnmatch(name, Tail(pat)) \/ (name # <<>> /\ fnmatch(Tail(name), pat))
  ELSE IF Head(pat) = "?"
    THEN name # <<>> /\ fnmatch(Tail(name), Tail(pat))
  ELSE IF Head(pat) = "[" /\ ClassEnd(pat) # 0
    THEN /\ name # <<>>
         /\ Head(name) \in {pat[k] : k \in 2..(ClassEnd(pat) - 1)}
         /\ fnmatch(Tail(name), SubSeq(pat, ClassEnd(pat) + 1, Len(pat)))
  ELSE name # <<>> /\ Head(name) = Head(pat) /\ fnmatch(Tail(name), Tail(pat))

\* glob.has_magic: the pattern holds one of * ? [
has_magic(s) == \E i \in 1..Len(s) : s[i] \in {"*", "?", "["}

\* glob._ishidden
ishidden(s) == s # <<>> /\ Head(s) = "."

\* os.listdir(dir) on the tree fs, a set of paths relative to the root
listdir(fs, dir) ==
  {p[Len(p)] : p \in {q \in fs : Len(q) = Len(dir) + 1 /\ IsPrefix(dir, q)}}

\* glob._glob1 (wildcard segment) and glob._glob0 (literal segment): the
\* entry names of directory dir that the segment seg selects
glob_in_dir(fs, dir, seg) ==
  IF has_magic(seg)
    THEN {n \in listdir(fs, dir) : (ishidden(seg) \/ ~ishidden(n)) /\ fnmatch(n, seg)}
  ELSE IF seg = <<>> \/ seg = <<".">>
    THEN IF dir = <<>> \/ dir \in fs THEN {seg} ELSE {}
  ELSE IF (dir \o <<seg>>) \in fs THEN {seg} ELSE {}

\* glob._iglob over the segments of the pattern, left to right: the matched
\* names, one per segment, of the first k segments
RECURSIVE iglob(_, _, _)
iglob(fs, segs, k) ==
  IF k = 0 THEN {<<>>}
  ELSE UNION {{d \o <<n>> : n \in glob_in_dir(fs, SelectSeq(d, KeepSegment), segs[k])}
              : d \in iglob(fs, segs, k - 1)}

\* a pattern that matches nothing is returned itself, as an unset nullglob
\* shell would
glob_NoMatchIsLiteral(fs, pattern) ==
  LET segs == SplitSlash(pattern)
      found == {JoinSlash(m) : m \in iglob(fs, segs, Len(segs))}
  IN  IF found = {} THEN {pattern} ELSE found

\* glob.glob(pattern, root_dir=manifest directory): the matched path
\* strings, relative to root_dir; their order is the directory listing order
glob(fs, pattern) ==
  LET segs == SplitSlash(pattern)
  IN  {JoinSlash(m) : m \in iglob(fs, segs, Len(segs))}

\* ----------------------------------------------------------------- inputs
\* directory names of the workspace tree
N_p  == <<"p">>
N_a  == <<"a">>
N_b  == <<"b">>
N_a2 == <<"a", "2">>

\* the filesystems under the manifest's directory (prefix-closed trees)
Filesystems ==
  { {<<N_p>>, <<N_p, N_a>>, <<N_p, N_b>>},
    {<<N_p>>, <<N_p, N_b>>, <<N_p, N_a2>>} }

\* tool.uv.workspace.members entries: "p", "p/a", "./p/a", "p/*", "p/?" and
\* "q/*" (a glob with no match on any filesystem above)
MemberPatterns ==
  { <<"p">>,
    <<"p", "/", "a">>,
    <<".", "/", "p", "/", "a">>,
    <<"p", "/", "*">>,
    <<"p", "/", "?">>,
    <<"q", "/", "*">> }

\* tool.uv.workspace.exclude entries: "p/a", "p/*", "p/[ab]"
ExcludePatterns ==
  { <<"p", "/", "a">>,
    <<"p", "/", "*">>,
    <<"p", "/", "[", "a", "b", "]">> }

\* changed files: "p/a/x", "p/a2/x", "/w/p/b/x" (absolute)
ChangedFiles ==
  { <<"p", "/", "a", "/", "x">>,
    <<"p", "/", "a", "2", "/", "x">>,
    <<"/", "w", "/", "p", "/", "b", "/", "x">> }

\* the manifest file as discover_projects meets it: missing, not TOML,
\* without the tool.uv.workspace table, without its members key, or complete
Manifests ==
  [kind : {"ok"}, members : SeqsUpTo(MemberPatterns, MaxMembers),
   hasExclude : {TRUE}, exclude : SeqsUpTo(ExcludePatterns, MaxExclude)]
  \cup [kind : {"ok"}, members : SeqsUpTo(MemberPatterns, MaxMembers),
        hasExclude : {FALSE}, exclude : {<<>>}]
  \cup [kind : {"no_members"}, members : {<<>>},
        hasExclude : {TRUE}, exclude : SeqsUpTo(ExcludePatterns, MaxExclude)]
  \cup [kind : {"missing", "malformed", "no_workspace", "no_members"},
        members : {<<>>}, hasExclude : {FALSE}, exclude : {<<>>}]

\* ------------------------------------------------------------------ state
VARIABLES
  manifest,         \* the pyproject file at workspace_pyproject_file
  fs,               \* the directory tree under the manifest's directory
  pc,               \* position of the program
  raised,           \* the exception that left discover_projects, or "none"
  projects,         \* discover_projects: data[...]["members"]
  exclude,          \* discover_projects: data[...].get("exclude", [])
  all_projects,     \* discover_projects: the working list, then the result
  mi,               \* index of the next members entry
  ei,               \* index of the next exclude entry
  changed_files,    \* get_changed_projects: argument
  fi,               \* index of the next changed file
  changed_projects, \* get_changed_projects: the result set
  agent,            \* agent1: ExampleAgent, its argument and its outcome
  md_expand,        \* check_md_code_blocks: expand_file_patterns
  md_extract,       \* check_md_code_blocks: extract_python_code_blocks
  md_check,         \* check_md_code_blocks: check_code_blocks
  run_all,          \* run_tasks_in_agents_if_exists: main
  run_changed,      \* run_tasks_in_changed_agents: main
  docs              \* generate_docs: generate_docs

\* the state of the other scripts, which the two functions leave alone
others == <<agent, md_expand, md_extract, md_check, run_all, run_changed, docs>>

vars == <<manifest, fs, pc, raised, projects, exclude, all_projects, mi, ei,
          changed_files, fi, changed_projects, others>>

\* a script that is not running
Idle == [pc |-> "idle"]

OthersIdle ==
  /\ agent = Idle
  /\ md_expand = Idle
  /\ md_extract = Idle
  /\ md_check = Idle
  /\ run_all = Idle
  /\ run_changed = Idle
  /\ docs = Idle

\* ROOT / workspace_root: Path(__file__).resolve().parent.parent, here "/w"
ROOT == << <<"/">>, <<"w">> >>

Init ==
  /\ manifest \in Manifests
  /\ fs \in Filesystems
  /\ pc = "call"
  /\ raised = "none"
  /\ projects = <<>>
  /\ exclude = <<>>
  /\ all_projects = <<>>
  /\ mi = 1
  /\ ei = 1
  /\ changed_files = <<>>
  /\ fi = 1
  /\ changed_projects = {}
  /\ OthersIdle

\* ------------------------------------------------------ discover_projects
\* a missing manifest read as an empty document
LoadError_MissingIsEmpty(m) ==
  CASE m.kind = "malformed"    -> "TOMLDecodeError"
    [] m.kind = "no_workspace" -> "KeyError"
    [] m.kind = "no_members"   -> "KeyError"
    [] OTHER                   -> "none"

\* members read with a default, as exclude is
LoadError_MembersDefault(m) ==
  CASE m.kind = "missing"      -> "FileNotFoundError"
    [] m.kind = "malformed"    -> "TOMLDecodeError"
    [] m.kind = "no_workspace" -> "KeyError"
    [] OTHER                   -> "none"

\* the exception of lines 56-60: open() on a missing file, tomli.load on a
\* document that is not TOML, the subscripts ["tool"]["uv"]["workspace"]
\* ["members"] on a missing key
LoadError(m) ==
  CASE m.kind = "missing"      -> "FileNotFoundError"
    [] m.kind = "malformed"    -> "TOMLDecodeError"
    [] m.kind = "no_workspace" -> "KeyError"
    [] m.kind = "no_members"   -> "KeyError"
    [] OTHER                   -> "none"

LoadManifest ==
  /\ pc = "call"
  /\ IF LoadError(manifest) # "none"
       THEN /\ raised' = LoadError(manifest)
            /\ pc' = "raised"
            /\ UNCHANGED <<projects, exclude>>
       ELSE /\ projects' = manifest.members
            /\ exclude' = IF manifest.hasExclude THEN manifest.exclude ELSE <<>>
            /\ pc' = "expanding"
            /\ UNCHANGED raised
  /\ all_projects' = <<>>
  /\ mi' = 1
  /\ ei' = 1
  /\ UNCHANGED <<manifest, fs, changed_files, fi, changed_projects>>
  /\ UNCHANGED others

\* every entry handed to glob, which returns only what exists
is_glob_Always(project) == TRUE

\* the test of lines 64 and 72: "*" in project
is_glob(project) == \E i \in 1..Len(project) : project[i] = "*"

\* lines 63-69: one iteration of the loop over members
ExpandMember ==
  /\ pc = "expanding"
  /\ mi <= Len(projects)
  /\ IF is_glob(projects[mi])
       THEN \E globbed \in Orderings(glob(fs, projects[mi])) :
              all_projects' = all_projects \o [k \in 1..Len(globbed) |-> PathOf(globbed[k])]
       ELSE all_projects' = Append(all_projects, PathOf(projects[mi]))
  /\ mi' = mi + 1
  /\ UNCHANGED <<manifest, fs, pc, raised, projects, exclude, ei,
                 changed_files, fi, changed_projects>>
  /\ UNCHANGED others

\* the filter done on sets, which forgets the order of the list
Filtered_Reversed(list, removed) ==
  LET kept == SelectSeq(list, LAMBDA p : p \notin removed)
  IN  [k \in 1..Len(kept) |-> kept[Len(kept) + 1 - k]]

\* [p for p in all_projects if p not in removed]
Filtered(list, removed) == SelectSeq(list, LAMBDA p : p \notin removed)

\* lines 71-77: one iteration of the loop over exclude
ApplyExclude ==
  /\ pc = "expanding"
  /\ mi > Len(projects)
  /\ ei <= Len(exclude)
  /\ IF is_glob(exclude[ei])
       THEN \E globbed \in Orderings(glob(fs, exclude[ei])) :
              all_projects' = Filtered(all_projects, {PathOf(globbed[k]) : k \in 1..Len(globbed)})
       ELSE all_projects' = Filtered(all_projects, {PathOf(exclude[ei])})
  /\ ei' = ei + 1
  /\ UNCHANGED <<manifest, fs, pc, raised, projects, exclude, mi,
                 changed_files, fi, changed_projects>>
  /\ UNCHANGED others

\* line 79: return all_projects
ReturnProjects ==
  /\ pc = "expanding"
  /\ mi > Len(projects)
  /\ ei > Len(exclude)
  /\ pc' = "returned"
  /\ UNCHANGED <<manifest, fs, raised, projects, exclude, all_projects, mi, ei,
                 changed_files, fi, changed_projects>>
  /\ UNCHANGED others

\* --------------------------------------------------- get_changed_projects
\* line 95-97: the changed file made absolute under workspace_root
abs_path(file_path) ==
  IF is_absolute(PathOf(file_path)) THEN PathOf(file_path)
  ELSE JoinPath(ROOT, PathOf(file_path))

\* the project compared as given, without workspace_root
project_abs_NoRoot(project) == project

\* line 100: project_abs = workspace_root / project
project_abs(project) == JoinPath(ROOT, project)

\* the scan without the break of line 104: every containing project
Scan_NoBreak(list, file_path) ==
  {list[k] : k \in {j \in 1..Len(list) : relative_to(abs_path(file_path), project_abs(list[j]))}}

\* lines 99-106: the projects the scan of one changed file adds, i.e. the
\* first project of the list that contains the file, if any
RECURSIVE Scan(_, _)
Scan(list, file_path) ==
  IF list = <<>> THEN {}
  ELSE IF relative_to(abs_path(file_path), project_abs(Head(list)))
    THEN {Head(list)}
  ELSE Scan(Tail(list), file_path)

\* the result set replaced by the project found last
add_Overwrite(found, project) == IF project = {} THEN found ELSE project

\* line 103: changed_projects.add(project), for the project the scan found
add(found, project) == found \cup project

\* lines 90-108 as a function of the two lists
RECURSIVE get_changed_projects(_, _, _)
get_changed_projects(list, files, found) ==
  IF files = <<>> THEN found
  ELSE get_changed_projects(list, Tail(files), add(found, Scan(list, Head(files))))

\* line 90: the call, with the project list discover_projects returned
CallGetChangedProjects ==
  /\ pc = "returned"
  /\ changed_files' \in SeqsUpTo(ChangedFiles, MaxChanged)
  /\ changed_projects' = {}
  /\ fi' = 1
  /\ pc' = "mapping"
  /\ UNCHANGED <<manifest, fs, raised, projects, exclude, all_projects, mi, ei>>
  /\ UNCHANGED others

\* lines 92-106: one iteration of the loop over changed_files
ScanFile ==
  /\ pc = "mapping"
  /\ fi <= Len(changed_files)
  /\ changed_projects' = add(changed_projects, Scan(all_projects, changed_files[fi]))
  /\ fi' = fi + 1
  /\ UNCHANGED <<manifest, fs, pc, raised, projects, exclude, all_projects, mi, ei,
                 changed_files>>
  /\ UNCHANGED others

\* line 108: return changed_projects
ReturnChanged ==
  /\ pc = "mapping"
  /\ fi > Len(changed_files)
  /\ pc' = "mapped"
  /\ UNCHANGED <<manifest, fs, raised, projects, exclude, all_projects, mi, ei,
                 changed_files, fi, changed_projects>>
  /\ UNCHANGED others

Next ==
  \/ LoadManifest
  \/ ExpandMember
  \/ ApplyExclude
  \/ ReturnProjects
  \/ CallGetChangedProjects
  \/ ScanFile
  \/ ReturnChanged

Spec == Init /\ [][Next]_vars

\* ----------------------------------------------------------------- claims
\* What the manifest and the filesystem say, stated without the program's
\* operators: a path of the tree matches a pattern when it has one name per
\* segment and every name matches its segment.
PathMatches(q, pattern) ==
  LET segs == SplitSlash(pattern)
  IN  Len(q) = Len(segs) /\ \A k \in 1..Len(segs) : fnmatch(q[k], segs[k])

HasWildcard(pattern) == \E i \in 1..Len(pattern) : pattern[i] \in {"*", "?", "["}

\* the paths a pattern stands for: its filesystem matches when it holds a
\* wildcard metacharacter, itself otherwise
Denotes(pattern) ==
  IF HasWildcard(pattern) THEN {q \in fs : PathMatches(q, pattern)}
  ELSE {PathOf(pattern)}

\* file is inside project: the project's absolute directory is a leading
\* sub-sequence of the components of the file's absolute path
AbsParts(path) == IF path # <<>> /\ path[1] = <<"/">> THEN path ELSE ROOT \o path

Owns(project, file) ==
  LET pa == AbsParts(project)
      fa == AbsParts(PathOf(file))
  IN  Len(pa) <= Len(fa) /\ \A k \in 1..Len(pa) : fa[k] = pa[k]

\* no project directory is an ancestor of another project's directory
NoNesting ==
  \A i, j \in 1..Len(all_projects) :
    all_projects[i] # all_projects[j] =>
      ~Owns(all_projects[i], StrOf(all_projects[j]))

Done == pc \in {"returned", "mapping", "mapped"}

\* C1: the list discover_projects returns contains no path twice.
C1_NoDuplicatePaths ==
  Done => \A i, j \in 1..Len(all_projects) :
            i # j => all_projects[i] # all_projects[j]

\* C2: no path of the returned list equals a literal exclude entry or a
\* filesystem match of a wildcard exclude pattern.
C2_ExcludedAbsent ==
  Done => \A k \in 1..Len(exclude) :
            \A p \in Range(all_projects) : p \notin Denotes(exclude[k])

\* C3: when no project directory is an ancestor of another, the mapper
\* returns exactly the projects of the list that own a changed file.
C3_ExactOwners ==
  (pc = "mapped" /\ NoNesting) =>
    changed_projects =
      {P \in Range(all_projects) : \E f \in Range(changed_files) : Owns(P, f)}

C3_Witness ==
  /\ pc = "mapped"
  /\ NoNesting
  /\ Cardinality(Range(all_projects)) >= 2
  /\ changed_projects # {}
  /\ changed_projects # Range(all_projects)
  /\ \E f \in Range(changed_files) : \A P \in Range(all_projects) : ~Owns(P, f)

\* C4: every project the mapper reports has a changed file whose path
\* components start with the project's; a project whose path is only a raw
\* string prefix of a changed file is not reported for that file.
C4_ComponentBoundaries ==
  pc \in {"mapping", "mapped"} =>
    \A P \in changed_projects :
      \E f \in Range(changed_files) : Owns(P, f)

C4_Witness ==
  /\ pc = "mapped"
  /\ \E P \in Range(all_projects) : \E f \in Range(changed_files) :
       /\ IsPrefix(StrOf(AbsParts(P)), StrOf(AbsParts(PathOf(f))))
       /\ ~Owns(P, f)
       /\ P \notin changed_projects

\* the first project of the list that owns the file
FirstOwner(file) ==
  LET owners == {k \in 1..Len(all_projects) : Owns(all_projects[k], file)}
  IN  all_projects[CHOOSE k \in owners : \A m \in owners : k <= m]

C6_EveryAncestor ==
  pc = "mapped" =>
    \A P \in Range(all_projects) : \A f \in Range(changed_files) :
      Owns(P, f) => P \in changed_projects

\* C7 as stated: a missing manifest fails with ManifestNotFoundError.
C7_ManifestNotFoundError ==
  (manifest.kind = "missing" /\ pc # "call") =>
    (pc = "raised" /\ raised = "ManifestNotFoundError")

\* C7 amended: a missing manifest fails with the FileNotFoundError of open(),
\* and no project list is ever returned.
C7_FileNotFoundError ==
  (manifest.kind = "missing" /\ pc # "call") =>
    (pc = "raised" /\ raised = "FileNotFoundError")

C7_Witness ==
  manifest.kind = "missing" /\ pc = "raised" /\ raised = "FileNotFoundError"

\* an absent exclude field is no error and filters nothing
AbsentExcludeFiltersNothing ==
  (manifest.kind = "ok" /\ ~manifest.hasExclude /\ Done) =>
    /\ raised = "none"
    /\ \A k \in 1..Len(manifest.members) :
         ~HasWildcard(manifest.members[k]) =>
           PathOf(manifest.members[k]) \in Range(all_projects)
    /\ \A k \in 1..Len(manifest.members) :
         (\E i \in 1..Len(manifest.members[k]) : manifest.members[k][i] = "*") =>
           Denotes(manifest.members[k]) \subseteq Range(all_projects)

\* C8 as stated: an unparsable manifest, or one without members, fails with
\* ManifestParseError; an absent exclude is no error.
C8_ManifestParseError ==
  /\ (manifest.kind \in {"malformed", "no_workspace", "no_members"} /\ pc # "call") =>
       (pc = "raised" /\ raised = "ManifestParseError")
  /\ AbsentExcludeFiltersNothing

\* C8 amended: an unparsable manifest fails with tomli's TOMLDecodeError and
\* a manifest without the members field (or its tables) with KeyError; never
\* is a list returned; an absent exclude is no error and filters nothing.
C8_DecodeOrKeyError ==
  /\ (manifest.kind = "malformed" /\ pc # "call") =>
       (pc = "raised" /\ raised = "TOMLDecodeError")
  /\ (manifest.kind \in {"no_workspace", "no_members"} /\ pc # "call") =>
       (pc = "raised" /\ raised = "KeyError")
  /\ AbsentExcludeFiltersNothing

C8_Witness ==
  manifest.kind = "no_members" /\ pc = "raised" /\ raised = "KeyError"

\* C9: every pattern holding a wildcard metacharacter (*, ? or a class) is
\* expanded against the filesystem; only the others are literal paths.
C9_EveryWildcardExpanded ==
  Done =>
    Range(all_projects) =
      UNION {Denotes(projects[k]) : k \in 1..Len(projects)}
        \ UNION {Denotes(exclude[k]) : k \in 1..Len(exclude)}

\* a members glob without a match is next
ZeroMatchNext ==
  /\ pc = "expanding" /\ mi <= Len(projects)
  /\ \E i \in 1..Len(projects[mi]) : projects[mi][i] = "*"
  /\ \A q \in fs : ~PathMatches(q, projects[mi])

\* a literal exclude entry that is not in the working list is next
AbsentLiteralExcludeNext ==
  /\ pc = "expanding" /\ mi > Len(projects) /\ ei <= Len(exclude)
  /\ ~HasWildcard(exclude[ei])
  /\ PathOf(exclude[ei]) \notin Range(all_projects)

\* the mapper is about to return and had nothing to find
NothingOwned ==
  /\ pc = "mapping" /\ fi > Len(changed_files)
  /\ \A f \in Range(changed_files) : \A P \in Range(all_projects) : ~Owns(P, f)

C11_LiteralMemberKept ==
  Done =>
    \A k \in 1..Len(projects) :
      ( /\ ~HasWildcard(projects[k])
        /\ \A e \in 1..Len(exclude) :
             /\ PathOf(projects[k]) \notin Denotes(exclude[e])
             /\ PathOf(projects[k]) # PathOf(exclude[e]) )
      => PathOf(projects[k]) \in Range(all_projects)

C11_Witness ==
  /\ pc = "returned"
  /\ \E k \in 1..Len(projects) :
       /\ ~HasWildcard(projects[k])
       /\ PathOf(projects[k]) \notin fs
       /\ PathOf(projects[k]) \in Range(all_projects)

\* C12: any changed-file list with the same set of entries, in any order and
\* with any repetition, gives the mapper the same result.
C12_OrderAndMultiplicity ==
  pc = "mapped" =>
    \A other \in SeqsUpTo(ChangedFiles, MaxChanged) :
      Range(other) = Range(changed_files) =>
        get_changed_projects(all_projects, other, {}) = changed_projects

C12_Witness ==
  /\ pc = "mapped"
  /\ Len(changed_files) = 2
  /\ changed_files[1] # changed_files[2]
  /\ Cardinality(changed_projects) = 2
  /\ \E P \in changed_projects : ~Owns(P, changed_files[1])
  /\ \E P \in changed_projects : ~Owns(P, changed_files[2])

\* the paths one members entry puts in the list
Expansion(pattern) ==
  IF \E i \in 1..Len(pattern) : pattern[i] = "*"
    THEN {q \in fs : PathMatches(q, pattern)}
    ELSE {PathOf(pattern)}

\* the entries of list come from members entries k, k+1, ... in that order
RECURSIVE InDeclarationOrder(_, _)
InDeclarationOrder(list, k) ==
  IF list = <<>> THEN TRUE
  ELSE LET from == {j \in k..Len(projects) : Head(list) \in Expansion(projects[j])}
       IN  /\ from # {}
           /\ InDeclarationOrder(Tail(list), CHOOSE j \in from : \A m \in from : j <= m)

\* a is b with some entries left out
RECURSIVE IsSubsequence(_, _)
IsSubsequence(a, b) ==
  IF a = <<>> THEN TRUE
  ELSE IF b = <<>> THEN FALSE
  ELSE IF Head(a) = Head(b) THEN IsSubsequence(Tail(a), Tail(b))
  ELSE IsSubsequence(a, Tail(b))

\* C20: the entries of the list follow the declaration order of the members
\* entries they come from (the matches of one glob form one block), and an
\* exclude entry only removes entries, never reorders the others.
C20_DeclarationOrder ==
  /\ [](pc \in {"expanding", "returned"} => InDeclarationOrder(all_projects, 1))
  /\ [][(pc = "expanding" /\ mi > Len(projects) /\ ei <= Len(exclude)) =>
          IsSubsequence(all_projects', all_projects)]_vars

C20_Witness ==
  /\ pc = "returned"
  /\ Len(all_projects) >= 2
  /\ \E k \in 1..Len(projects) : HasWildcard(projects[k])
  /\ \E k \in 1..Len(projects) : ~HasWildcard(projects[k])
  /\ \E e \in 1..Len(exclude) :
       PathOf(exclude[e]) \in fs /\ PathOf(exclude[e]) \notin Range(all_projects)

\* ======================================================================
\* agents/agent1: ExampleAgent (src/agent1/agent.py)
\* ======================================================================
MaxName == 2

\* the state of discover_projects and get_changed_projects
resolver == <<manifest, fs, pc, raised, projects, exclude, all_projects, mi, ei,
              changed_files, fi, changed_projects>>

\* the two functions are not running
ResolverIdle ==
  /\ manifest = Idle
  /\ fs = {}
  /\ pc = "idle"
  /\ raised = "none"
  /\ projects = <<>>
  /\ exclude = <<>>
  /\ all_projects = <<>>
  /\ mi = 1
  /\ ei = 1
  /\ changed_files = <<>>
  /\ fi = 1
  /\ changed_projects = {}

\* s holds sub as a contiguous substring (Python's "sub in s", re.search of
\* a literal)
Contains(sub, s) ==
  \E k \in 0..(Len(s) - Len(sub)) : SubSeq(s, k + 1, k + Len(sub)) = sub

\* AgentConfig.greeting of line 12: "hello"
DefaultGreeting == <<"h", "e", "l", "l", "o">>

\* the message of MissingNameError, line 20: "name required"
MissingNameMessage ==
  <<"n", "a", "m", "e", " ", "r", "e", "q", "u", "i", "r", "e", "d">>

\* the config argument of ExampleAgent: None, or an AgentConfig with the
\* greeting "hi", "" or the default
AgentConfigs ==
  {[given |-> FALSE, greeting |-> <<>>],
   [given |-> TRUE, greeting |-> <<"h", "i">>],
   [given |-> TRUE, greeting |-> <<>>],
   [given |-> TRUE, greeting |-> DefaultGreeting]}

\* the name argument of run: "", "A", "d", "a", "Ad", ...
AgentNames == SeqsUpTo({"A", "d", "a"}, MaxName)

InitAgent ==
  /\ ResolverIdle
  /\ \E c \in AgentConfigs, n \in AgentNames :
       agent = [pc |-> "new", config |-> c, name |-> n, greeting |-> <<>>,
                raised |-> "none", message |-> <<>>, returned |-> <<>>]
  /\ md_expand = Idle
  /\ md_extract = Idle
  /\ md_check = Idle
  /\ run_all = Idle
  /\ run_changed = Idle
  /\ docs = Idle

\* lines 26-28: self.config = config or AgentConfig(); a dataclass instance
\* is always true, so a given config is kept
ExampleAgent_init ==
  /\ agent.pc = "new"
  /\ agent' = [agent EXCEPT
                 !.pc = "ready",
                 !.greeting = IF agent.config.given THEN agent.config.greeting
                              ELSE DefaultGreeting]
  /\ UNCHANGED <<resolver, md_expand, md_extract, md_check, run_all, run_changed, docs>>

\* the greeting built without the check of the name
run_NoCheck(greeting, name) ==
  [raised |-> "none", message |-> <<>>,
   returned |-> greeting \o <<",", " ">> \o name \o <<"!">>]

\* lines 30-34: ExampleAgent.run
run(greeting, name) ==
  IF name = <<>>
    THEN [raised |-> "MissingNameError", message |-> MissingNameMessage,
          returned |-> <<>>]
    ELSE [raised |-> "none", message |-> <<>>,
          returned |-> greeting \o <<",", " ">> \o name \o <<"!">>]

ExampleAgent_run ==
  /\ agent.pc = "ready"
  /\ LET out == run(agent.greeting, agent.name)
     IN  agent' = [agent EXCEPT
                     !.pc = IF out.raised = "none" THEN "returned" ELSE "raised",
                     !.raised = out.raised,
                     !.message = out.message,
                     !.returned = out.returned]
  /\ UNCHANGED <<resolver, md_expand, md_extract, md_check, run_all, run_changed, docs>>

NextAgent == ExampleAgent_init \/ ExampleAgent_run

SpecAgent == InitAgent /\ [][NextAgent]_vars

\* the greeting the agent is configured with
ConfiguredGreeting ==
  IF agent.config.given THEN agent.config.greeting ELSE <<"h", "e", "l", "l", "o">>

\* C13: for a non-empty name run returns "<greeting>, <name>!" with the
\* configured greeting; for the empty name it raises MissingNameError with a
\* message that contains "name" and returns nothing.
C13_GreetsOrRaises ==
  agent.pc \in {"returned", "raised"} =>
    IF agent.name # <<>>
      THEN /\ agent.pc = "returned"
           /\ agent.raised = "none"
           /\ Len(agent.returned) = Len(ConfiguredGreeting) + Len(agent.name) + 3
           /\ IsPrefix(ConfiguredGreeting \o <<",", " ">> \o agent.name, agent.returned)
           /\ agent.returned[Len(agent.returned)] = "!"
      ELSE /\ agent.pc = "raised"
           /\ agent.raised = "MissingNameError"
           /\ Contains(<<"n", "a", "m", "e">>, agent.message)
           /\ agent.returned = <<>>

C13_Witness ==
  /\ agent.pc = "returned"
  /\ agent.config.given
  /\ agent.name = <<"A", "d">>
  /\ agent.returned = <<"h", "i", ",", " ", "A", "d", "!">>

\* ======================================================================
\* scripts/check_md_code_blocks.py: extract_python_code_blocks
\* ======================================================================
MaxLines == 4

\* the backquote character, which a string of this module cannot hold
BT == "backquote"

\* the lines readlines() gives, each with its newline: the fences
\* BT BT BT python, BT BT BT and BT BT BT bash, and the text lines "x", " y"
L_python == <<BT, BT, BT, "p", "y", "t", "h", "o", "n", "\n">>
L_fence  == <<BT, BT, BT, "\n">>
L_bash   == <<BT, BT, BT, "b", "a", "s", "h", "\n">>
L_x      == <<"x", "\n">>
L_y      == <<" ", "y", "\n">>

MarkdownLines == {L_python, L_fence, L_bash, L_x, L_y}

\* str.strip(): leading and trailing whitespace removed
IsSpace(c) == c \in {" ", "\n", "\t"}

RECURSIVE lstrip(_)
lstrip(s) == IF s # <<>> /\ IsSpace(Head(s)) THEN lstrip(Tail(s)) ELSE s

RECURSIVE rstrip(_)
rstrip(s) ==
  IF s # <<>> /\ IsSpace(s[Len(s)]) THEN rstrip(SubSeq(s, 1, Len(s) - 1)) ELSE s

strip(s) == rstrip(lstrip(s))

\* str.startswith
startswith(s, prefix) == IsPrefix(prefix, s)

\* "\n".join(lines)
RECURSIVE JoinNewline(_)
JoinNewline(ls) ==
  IF ls = <<>> THEN <<>>
  ELSE IF Len(ls) = 1 THEN Head(ls)
  ELSE Head(ls) \o <<"\n">> \o JoinNewline(Tail(ls))

\* the tests of lines 111 and 114
opens_python(line) == startswith(strip(line), <<BT, BT, BT, "p", "y", "t", "h", "o", "n">>)
is_fence(line) == startswith(strip(line), <<BT, BT, BT>>)

InitExtract ==
  /\ ResolverIdle
  /\ agent = Idle
  /\ md_expand = Idle
  /\ \E ls \in SeqsUpTo(MarkdownLines, MaxLines) :
       md_extract = [pc |-> "call", lines |-> ls, i |-> 1, in_code_block |-> FALSE,
                     current_block |-> <<>>, code_blocks |-> <<>>]
  /\ md_check = Idle
  /\ run_all = Idle
  /\ run_changed = Idle
  /\ docs = Idle

\* lines 103-108: the file read and the locals set
extract_open ==
  /\ md_extract.pc = "call"
  /\ md_extract' = [md_extract EXCEPT !.pc = "loop", !.i = 1, !.in_code_block = FALSE,
                                      !.current_block = <<>>, !.code_blocks = <<>>]
  /\ UNCHANGED <<resolver, agent, md_expand, md_check, run_all, run_changed, docs>>

\* lines 110-118: one iteration over the lines; index i of the code is
\* md_extract.i - 1
extract_line ==
  /\ md_extract.pc = "loop"
  /\ md_extract.i <= Len(md_extract.lines)
  /\ LET line == md_extract.lines[md_extract.i]
         cur  == md_extract.current_block
     IN  md_extract' =
           IF opens_python(line)
             THEN [md_extract EXCEPT !.i = @ + 1, !.in_code_block = TRUE,
                                     !.current_block = <<>>]
           ELSE IF is_fence(line)
             THEN [md_extract EXCEPT
                     !.i = @ + 1, !.in_code_block = FALSE,
                     !.code_blocks = Append(@, [code |-> JoinNewline(cur),
                                                line |-> (md_extract.i - 1) - Len(cur) + 1])]
           ELSE IF md_extract.in_code_block
             THEN [md_extract EXCEPT !.i = @ + 1, !.current_block = Append(@, line)]
           ELSE [md_extract EXCEPT !.i = @ + 1]
  /\ UNCHANGED <<resolver, agent, md_expand, md_check, run_all, run_changed, docs>>

\* line 120: return code_blocks
extract_return ==
  /\ md_extract.pc = "loop"
  /\ md_extract.i > Len(md_extract.lines)
  /\ md_extract' = [md_extract EXCEPT !.pc = "returned"]
  /\ UNCHANGED <<resolver, agent, md_expand, md_check, run_all, run_changed, docs>>

NextExtract == extract_open \/ extract_line \/ extract_return

SpecExtract == InitExtract /\ [][NextExtract]_vars

\* the python blocks of the file: an opening python fence at line o and
\* the first fence after it, at line c, which is not another python fence
IsPythonFence(line) ==
  LET t == strip(line) IN Len(t) >= 9 /\ SubSeq(t, 1, 9) = <<BT, BT, BT, "p", "y", "t", "h", "o", "n">>

IsAnyFence(line) ==
  LET t == strip(line) IN Len(t) >= 3 /\ SubSeq(t, 1, 3) = <<BT, BT, BT>>

PythonBlocks ==
  LET ls == md_extract.lines
  IN  {b \in (1..Len(ls)) \X (1..Len(ls)) :
         /\ b[1] < b[2]
         /\ IsPythonFence(ls[b[1]])
         /\ IsAnyFence(ls[b[2]]) /\ ~IsPythonFence(ls[b[2]])
         /\ \A m \in (b[1] + 1)..(b[2] - 1) : ~IsAnyFence(ls[m])}

\* C14: the entries are the python blocks of the file, one each and in file
\* order, with the lines between the fences as code and the line after the
\* opening fence as line number; other fences add no entry.
C14_OneEntryPerPythonBlock ==
  md_extract.pc = "returned" =>
    LET out == md_extract.code_blocks
    IN  /\ Len(out) = Cardinality(PythonBlocks)
        /\ \A k \in 1..Len(out) :
             \E b \in PythonBlocks :
               /\ out[k].line = b[1] + 1
               /\ out[k].code = JoinNewline(SubSeq(md_extract.lines, b[1] + 1, b[2] - 1))
        /\ \A k \in 1..(Len(out) - 1) : out[k].line < out[k + 1].line

\* ======================================================================
\* scripts/check_md_code_blocks.py: check_code_blocks
\* ======================================================================
MaxFiles == 2
MaxBlocks == 2

\* the Markdown files given: "a.md" and "x/a.md", each with the return codes
\* pyright gives for the blocks extract_python_code_blocks returns for it
MarkdownPaths == {<<"a", ".", "m", "d">>, <<"x", "/", "a", ".", "m", "d">>}

MarkdownFiles == [path : MarkdownPaths, blocks : SeqsUpTo({0, 1}, MaxBlocks)]

\* the exclude_patterns argument: None, [], ["x/"], [".md"]
ExcludeArguments ==
  {[given |-> FALSE, patterns |-> <<>>],
   [given |-> TRUE, patterns |-> <<>>],
   [given |-> TRUE, patterns |-> << <<"x", "/">> >>],
   [given |-> TRUE, patterns |-> << <<".", "m", "d">> >>]}

InitCheck ==
  /\ ResolverIdle
  /\ agent = Idle
  /\ md_expand = Idle
  /\ md_extract = Idle
  /\ \E fl \in SeqsUpTo(MarkdownFiles, MaxFiles), ex \in ExcludeArguments :
       md_check = [pc |-> "call", markdown_file_paths |-> fl, argument |-> ex,
                   exclude_patterns |-> <<>>, fi |-> 1, bi |-> 1, had_errors |-> FALSE,
                   files_with_errors |-> <<>>, checked |-> <<>>,
                   raised |-> "none", message |-> <<>>]
  /\ run_all = Idle
  /\ run_changed = Idle
  /\ docs = Idle

notCheck == <<resolver, agent, md_expand, md_extract, run_all, run_changed, docs>>

\* lines 137-138: exclude_patterns = exclude_patterns or []
check_open ==
  /\ md_check.pc = "call"
  /\ md_check' = [md_check EXCEPT
                    !.pc = "files",
                    !.files_with_errors = <<>>,
                    !.exclude_patterns = IF md_check.argument.given
                                           THEN md_check.argument.patterns ELSE <<>>]
  /\ UNCHANGED notCheck

\* line 141: any(pattern in markdown_file_path for pattern in exclude_patterns)
is_excluded(path, patterns) == \E k \in 1..Len(patterns) : Contains(patterns[k], path)

\* lines 140-146: the next file is skipped or its blocks are extracted
check_next_file ==
  /\ md_check.pc = "files"
  /\ md_check.fi <= Len(md_check.markdown_file_paths)
  /\ md_check' =
       IF is_excluded(md_check.markdown_file_paths[md_check.fi].path, md_check.exclude_patterns)
         THEN [md_check EXCEPT !.fi = @ + 1]
         ELSE [md_check EXCEPT !.pc = "blocks", !.bi = 1, !.had_errors = FALSE]
  /\ UNCHANGED notCheck

\* had_errors assigned the outcome of the block at hand
had_errors_LastBlock(had, returncode) == returncode # 0

\* lines 166-186: had_errors after a block that pyright gave returncode
had_errors_after(had, returncode) == IF returncode # 0 THEN TRUE ELSE had

\* lines 148-192: pyright run on one block of the file
check_block ==
  /\ md_check.pc = "blocks"
  /\ md_check.bi <= Len(md_check.markdown_file_paths[md_check.fi].blocks)
  /\ md_check' =
       [md_check EXCEPT
          !.checked = Append(@, <<md_check.fi, md_check.bi>>),
          !.had_errors = had_errors_after(
                           @, md_check.markdown_file_paths[md_check.fi].blocks[md_check.bi]),
          !.bi = @ + 1]
  /\ UNCHANGED notCheck

\* lines 194-195: the file recorded if a block of it failed
check_end_file ==
  /\ md_check.pc = "blocks"
  /\ md_check.bi > Len(md_check.markdown_file_paths[md_check.fi].blocks)
  /\ md_check' =
       [md_check EXCEPT
          !.pc = "files",
          !.fi = @ + 1,
          !.files_with_errors =
             IF md_check.had_errors
               THEN Append(@, md_check.markdown_file_paths[md_check.fi].path) ELSE @]
  /\ UNCHANGED notCheck

\* lines 197-198: RuntimeError with the recorded files, or a plain return
check_finish ==
  /\ md_check.pc = "files"
  /\ md_check.fi > Len(md_check.markdown_file_paths)
  /\ md_check' =
       IF md_check.files_with_errors # <<>>
         THEN [md_check EXCEPT !.pc = "raised", !.raised = "RuntimeError",
                               !.message = md_check.files_with_errors]
         ELSE [md_check EXCEPT !.pc = "returned"]
  /\ UNCHANGED notCheck

NextCheck == check_open \/ check_next_file \/ check_block \/ check_end_file \/ check_finish

SpecCheck == InitCheck /\ [][NextCheck]_vars

\* the file at index k is left out by an exclude substring
ExcludedFile(k) ==
  /\ md_check.argument.given
  /\ \E e \in 1..Len(md_check.argument.patterns) :
       \E j \in 0..Len(md_check.markdown_file_paths[k].path) :
         IsPrefix(md_check.argument.patterns[e],
                  SubSeq(md_check.markdown_file_paths[k].path, j + 1,
                         Len(md_check.markdown_file_paths[k].path)))

\* the files that are not excluded and have a block pyright rejects
FailingFiles ==
  {k \in 1..Len(md_check.markdown_file_paths) :
     /\ ~ExcludedFile(k)
     /\ \E b \in 1..Len(md_check.markdown_file_paths[k].blocks) :
          md_check.markdown_file_paths[k].blocks[b] # 0}

\* C15: RuntimeError is raised exactly when a file that is not excluded has
\* a block pyright rejects, only after every block of every such file was
\* checked; the message lists exactly those files; no block of an excluded
\* file is checked.
C15_RaisesAfterAllFiles ==
  md_check.pc \in {"raised", "returned"} =>
    /\ (md_check.pc = "raised") = (FailingFiles # {})
    /\ (md_check.raised = "RuntimeError") = (FailingFiles # {})
    /\ Range(md_check.message) = {md_check.markdown_file_paths[k].path : k \in FailingFiles}
    /\ \A k \in 1..Len(md_check.markdown_file_paths) :
         \A b \in 1..Len(md_check.markdown_file_paths[k].blocks) :
           (<<k, b>> \in Range(md_check.checked)) = ~ExcludedFile(k)

C15_Witness ==
  /\ md_check.pc = "raised"
  /\ Len(md_check.markdown_file_paths) = 2
  /\ \E k \in 1..2 : ExcludedFile(k) /\ md_check.markdown_file_paths[k].blocks # <<>>
  /\ md_check.markdown_file_paths[1].blocks = <<1, 0>>
  /\ Len(md_check.checked) = 2

\* ======================================================================
\* scripts/check_md_code_blocks.py: expand_file_patterns
\* ======================================================================
MaxPatterns == 2

\* os.path.isdir on the tree tree: the root, or an entry with entries below it
isdir(tree, p) == p = <<>> \/ \E q \in tree : q # p /\ IsPrefix(p, q)

\* glob._isrecursive: the segment is "**"
isrecursive(seg) == seg = <<"*", "*">>

\* glob._rlistdir: every entry below dir, hidden names and what is under
\* them left out, as a path relative to dir
rlistdir(tree, dir, dironly) ==
  {SubSeq(q, Len(dir) + 1, Len(q)) :
     q \in {r \in tree : /\ r # dir
                       /\ IsPrefix(dir, r)
                       /\ \A i \in (Len(dir) + 1)..Len(r) : ~ishidden(r[i])
                       /\ dironly => isdir(tree, r)}}

\* glob._glob2: the directory itself (an empty name) and all below it
glob2(tree, dir, dironly) ==
  (IF dir = <<>> \/ (dir \in tree /\ isdir(tree, dir)) THEN {<<>>} ELSE {}) \cup rlistdir(tree, dir, dironly)

\* glob._iglob with recursive=True: as iglob, a "**" segment standing for
\* any number of directories. os.path.join leaves an empty name out in the
\* middle of a path and gives a trailing "/" at its end; glob.glob drops
\* the empty string.
RECURSIVE iglob_recursive(_, _, _)
iglob_recursive(tree, segs, k) ==
  IF k = 0 THEN {<<>>}
  ELSE UNION {
         IF isrecursive(segs[k])
           THEN {IF r = <<>> /\ k = Len(segs) THEN d \o << <<>> >> ELSE d \o r :
                   r \in {x \in glob2(tree, SelectSeq(d, KeepSegment), k < Len(segs)) :
                            ~(x = <<>> /\ d = <<>> /\ k = Len(segs))}}
           ELSE {d \o <<n>> : n \in glob_in_dir(tree, SelectSeq(d, KeepSegment), segs[k])}
         : d \in iglob_recursive(tree, segs, k - 1)}

\* glob.glob(pattern, recursive=True)
glob_recursive(tree, pattern) ==
  LET segs == SplitSlash(pattern)
  IN  {JoinSlash(m) : m \in iglob_recursive(tree, segs, Len(segs))}

\* ord() of the characters of the paths below
ord(c) ==
  CASE c = "*" -> 42 [] c = "." -> 46 [] c = "2" -> 50 [] c = "/" -> 47 [] c = "a" -> 97 [] c = "b" -> 98
    [] c = "c" -> 99 [] c = "d" -> 100 [] c = "m" -> 109 [] c = "p" -> 112 [] c = "y" -> 121

\* str.__lt__: code point order, a proper prefix first
RECURSIVE str_lt(_, _)
str_lt(s, t) ==
  IF t = <<>> THEN FALSE
  ELSE IF s = <<>> THEN TRUE
  ELSE IF Head(s) = Head(t) THEN str_lt(Tail(s), Tail(t))
  ELSE ord(Head(s)) < ord(Head(t))

\* sorted(set(...)) of strings
RECURSIVE sorted(_)
sorted(S) ==
  IF S = {} THEN <<>>
  ELSE LET least == CHOOSE x \in S : \A y \in S \ {x} : str_lt(x, y)
       IN  <<least>> \o sorted(S \ {least})

\* str.endswith
endswith(s, suffix) ==
  Len(suffix) <= Len(s) /\ SubSeq(s, Len(s) - Len(suffix) + 1, Len(s)) = suffix

DotMd == <<".", "m", "d">>

\* the working directory: a.md, b.py, d/, d/c.md
N_amd == <<"a", ".", "m", "d">>
N_bpy == <<"b", ".", "p", "y">>
N_d   == <<"d">>
N_cmd == <<"c", ".", "m", "d">>

WorkingTree == {<<N_amd>>, <<N_bpy>>, <<N_d>>, <<N_d, N_cmd>>}

\* the command-line patterns: "*", "*.md", "a.md", "b.py", "**/*.md", "d/*"
FilePatterns ==
  { <<"*">>,
    <<"*", ".", "m", "d">>,
    N_amd,
    N_bpy,
    <<"*", "*", "/", "*", ".", "m", "d">>,
    <<"d", "/", "*">> }

InitExpand ==
  /\ ResolverIdle
  /\ agent = Idle
  /\ \E ps \in SeqsUpTo(FilePatterns, MaxPatterns), sg \in BOOLEAN :
       md_expand = [pc |-> "patterns", patterns |-> ps, skip_glob |-> sg, i |-> 1,
                    all_files |-> <<>>, result |-> <<>>]
  /\ md_extract = Idle
  /\ md_check = Idle
  /\ run_all = Idle
  /\ run_changed = Idle
  /\ docs = Idle

notExpand == <<resolver, agent, md_extract, md_check, run_all, run_changed, docs>>

\* lines 83-89: the paths one pattern adds
matches(pattern, skip_glob) ==
  IF skip_glob
    THEN IF endswith(pattern, DotMd) THEN glob(WorkingTree, pattern) ELSE {}
    ELSE glob_recursive(WorkingTree, pattern)

\* lines 82-89: one pattern handled; glob gives its matches in the order
\* of the directory listing, which is arbitrary
expand_pattern ==
  /\ md_expand.pc = "patterns"
  /\ md_expand.i <= Len(md_expand.patterns)
  /\ \E order \in Orderings(matches(md_expand.patterns[md_expand.i], md_expand.skip_glob)) :
       md_expand' = [md_expand EXCEPT !.i = @ + 1, !.all_files = @ \o order]
  /\ UNCHANGED notExpand

\* line 90: return sorted(set(all_files))
expand_return ==
  /\ md_expand.pc = "patterns"
  /\ md_expand.i > Len(md_expand.patterns)
  /\ md_expand' = [md_expand EXCEPT !.pc = "returned",
                                    !.result = sorted(Range(md_expand.all_files))]
  /\ UNCHANGED notExpand

NextExpand == expand_pattern \/ expand_return

SpecExpand == InitExpand /\ [][NextExpand]_vars

\* C16: the list expand_file_patterns returns is sorted, has no duplicates
\* and holds only paths ending in ".md", whatever skip_glob is.
C16_SortedUniqueMarkdown ==
  md_expand.pc = "returned" =>
    /\ \A i, j \in 1..Len(md_expand.result) :
         i < j => str_lt(md_expand.result[i], md_expand.result[j])
    /\ \A i \in 1..Len(md_expand.result) : endswith(md_expand.result[i], DotMd)

\* the same for skip_glob = True alone
C16_LiteralModeMarkdown ==
  (md_expand.pc = "returned" /\ md_expand.skip_glob) =>
    /\ \A i, j \in 1..Len(md_expand.result) :
         i < j => str_lt(md_expand.result[i], md_expand.result[j])
    /\ \A i \in 1..Len(md_expand.result) : endswith(md_expand.result[i], DotMd)

\* a recursive pattern reaches the file below d/
C16_RecursiveReached ==
  /\ md_expand.pc = "returned"
  /\ ~md_expand.skip_glob
  /\ md_expand.result = <<N_amd, <<"d", "/", "c", ".", "m", "d">> >>

\* ======================================================================
\* scripts/run_tasks_in_agents_if_exists.py: main
\* ======================================================================
MaxAgentArgs == 1

\* the agents of the workspace, named by their directory under agents/
AgentDirs == {"agent1", "agent2"}

\* Poe task names
TaskNames == {"test", "lint"}

\* sys.argv[1:]: nothing, or a task name followed by agent names
ArgvTails == {<<>>} \cup {<<t>> \o names : t \in TaskNames, names \in SeqsUpTo(AgentDirs, MaxAgentArgs)}

\* what discover_projects returns: the agents in some order, each at most once
ProjectLists == UNION {Orderings(S) : S \in SUBSET AgentDirs}

\* extract_poe_tasks for each agent's pyproject.toml
TaskTables == [AgentDirs -> {{}, {"test"}, {"test", "lint"}}]

\* the exit code of the Poe run in each agent
PoeResults == [AgentDirs -> {0, 1}]

InitRunAll ==
  /\ ResolverIdle
  /\ agent = Idle
  /\ md_expand = Idle
  /\ md_extract = Idle
  /\ md_check = Idle
  /\ \E av \in ArgvTails, pl \in ProjectLists, tt \in TaskTables, pr \in PoeResults :
       run_all = [pc |-> "start", argv |-> av, projects |-> pl, tasks |-> tt, results |-> pr,
                  i |-> 1, considered |-> <<>>, executed |-> <<>>, exit |-> 0]
  /\ run_changed = Idle
  /\ docs = Idle

notRunAll == <<resolver, agent, md_expand, md_extract, md_check, run_changed, docs>>

\* lines 58-62: exit 1 without a task name, else the loop is entered
run_all_task_name ==
  /\ run_all.pc = "start"
  /\ run_all' = IF Len(run_all.argv) < 1
                  THEN [run_all EXCEPT !.pc = "exited", !.exit = 1]
                  ELSE [run_all EXCEPT !.pc = "loop"]
  /\ UNCHANGED notRunAll

\* lines 63-72: one project of the loop; Poe is given sys.argv[1:] whole,
\* and a non-zero result ends the script
run_all_project ==
  /\ run_all.pc = "loop"
  /\ run_all.i <= Len(run_all.projects)
  /\ LET project == run_all.projects[run_all.i]
     IN  run_all' =
           IF run_all.argv[1] \in run_all.tasks[project]
             THEN IF run_all.results[project] # 0
                    THEN [run_all EXCEPT
                            !.considered = Append(@, project),
                            !.executed = Append(@, [cwd |-> project, cli_args |-> run_all.argv]),
                            !.pc = "exited", !.exit = run_all.results[project]]
                    ELSE [run_all EXCEPT
                            !.considered = Append(@, project),
                            !.executed = Append(@, [cwd |-> project, cli_args |-> run_all.argv]),
                            !.i = @ + 1]
             ELSE [run_all EXCEPT !.considered = Append(@, project), !.i = @ + 1]
  /\ UNCHANGED notRunAll

\* the loop of line 63 is over
run_all_return ==
  /\ run_all.pc = "loop"
  /\ run_all.i > Len(run_all.projects)
  /\ run_all' = [run_all EXCEPT !.pc = "returned"]
  /\ UNCHANGED notRunAll

NextRunAll == run_all_task_name \/ run_all_project \/ run_all_return

SpecRunAll == InitRunAll /\ [][NextRunAll]_vars

\* C17: with agent names after the task name only the named agents are
\* looked at; with none, every workspace member is.
C17_OnlyNamedAgents ==
  /\ Len(run_all.argv) > 1 =>
       \A k \in 1..Len(run_all.considered) : run_all.considered[k] \in Range(Tail(run_all.argv))
  /\ (Len(run_all.argv) = 1 /\ run_all.pc = "returned") =>
       Range(run_all.considered) = Range(run_all.projects)

\* without agent names every member is looked at
C17_AllMembersWithoutNames ==
  (Len(run_all.argv) = 1 /\ run_all.pc = "returned") =>
    run_all.considered = run_all.projects

\* ======================================================================
\* scripts/run_tasks_in_changed_agents.py: main
\* ======================================================================
\* project paths discover_projects returns: p, p/a, p/b
P_p  == <<N_p>>
P_pa == <<N_p, N_a>>
P_pb == <<N_p, N_b>>

WorkspaceProjects == {P_p, P_pa, P_pb}

\* lists discover_projects returns for the members ["p"], ["p", "p/a"],
\* ["p/a", "p"], ["p/a", "p/b"], ["p/b", "p/a"] and for no member
DiscoveredLists ==
  {<<>>, <<P_p>>, <<P_p, P_pa>>, <<P_pa, P_p>>, <<P_pa, P_pb>>, <<P_pb, P_pa>>}

\* the files arguments: changed files and "."
FileArguments == ChangedFiles \cup {<<".">>}

\* the lines git diff --name-only prints: none, "p/a/x", "p/a/x" and "p/b/x"
GitOutputs ==
  {<<>>,
   << <<"p", "/", "a", "/", "x">> >>,
   << <<"p", "/", "a", "/", "x">>, <<"p", "/", "b", "/", "x">> >>}

\* Path.__lt__: the parts compared in order, a proper prefix first
RECURSIVE path_lt(_, _)
path_lt(p, q) ==
  IF q = <<>> THEN FALSE
  ELSE IF p = <<>> THEN TRUE
  ELSE IF Head(p) = Head(q) THEN path_lt(Tail(p), Tail(q))
  ELSE str_lt(Head(p), Head(q))

\* sorted(changed_projects)
RECURSIVE sorted_paths(_)
sorted_paths(S) ==
  IF S = {} THEN <<>>
  ELSE LET least == CHOOSE x \in S : \A y \in S \ {x} : path_lt(x, y)
       IN  <<least>> \o sorted_paths(S \ {least})

InitChangedMain ==
  /\ ResolverIdle
  /\ agent = Idle
  /\ md_expand = Idle
  /\ md_extract = Idle
  /\ md_check = Idle
  /\ run_all = Idle
  /\ \E fl \in SeqsUpTo(FileArguments, MaxChanged), go \in GitOutputs, pl \in DiscoveredLists,
        tt \in [WorkspaceProjects -> {{}, {"test"}}], pr \in [WorkspaceProjects -> {0, 1}] :
       run_changed = [pc |-> "start", task |-> "test", files |-> fl, git |-> go, projects |-> pl,
                      tasks |-> tt, results |-> pr, changed_files |-> <<>>,
                      changed_projects |-> {}, order |-> <<>>, i |-> 1,
                      executed |-> <<>>, exit |-> 0]
  /\ docs = Idle

notChangedMain == <<resolver, agent, md_expand, md_extract, md_check, run_all, docs>>

\* lines 130-132: the files of argv, or git's when argv gives none or "."
selected_files(files, git) == IF files = <<>> \/ files = << <<".">> >> THEN git ELSE files

\* lines 130-136: the changed files chosen; return when there is none
changed_select ==
  /\ run_changed.pc = "start"
  /\ run_changed' =
       [run_changed EXCEPT
          !.changed_files = selected_files(run_changed.files, run_changed.git),
          !.pc = IF selected_files(run_changed.files, run_changed.git) = <<>>
                   THEN "returned" ELSE "map"]
  /\ UNCHANGED notChangedMain

\* lines 138-143: the changed projects; return when there is none
changed_map ==
  /\ run_changed.pc = "map"
  /\ LET found == get_changed_projects(run_changed.projects, run_changed.changed_files, {})
     IN  run_changed' =
           [run_changed EXCEPT
              !.changed_projects = found,
              !.order = sorted_paths(found),
              !.pc = IF found = {} THEN "returned" ELSE "loop"]
  /\ UNCHANGED notChangedMain

\* lines 145-154: one project of the loop; a non-zero Poe result ends the
\* script
changed_project ==
  /\ run_changed.pc = "loop"
  /\ run_changed.i <= Len(run_changed.order)
  /\ LET project == run_changed.order[run_changed.i]
     IN  run_changed' =
           IF run_changed.task \in run_changed.tasks[project]
             THEN IF run_changed.results[project] # 0
                    THEN [run_changed EXCEPT
                            !.executed = Append(@, project),
                            !.pc = "exited", !.exit = run_changed.results[project]]
                    ELSE [run_changed EXCEPT !.executed = Append(@, project), !.i = @ + 1]
             ELSE [run_changed EXCEPT !.i = @ + 1]
  /\ UNCHANGED notChangedMain

\* the loop of line 145 is over
changed_return ==
  /\ run_changed.pc = "loop"
  /\ run_changed.i > Len(run_changed.order)
  /\ run_changed' = [run_changed EXCEPT !.pc = "returned"]
  /\ UNCHANGED notChangedMain

NextChangedMain == changed_select \/ changed_map \/ changed_project \/ changed_return

SpecChangedMain == InitChangedMain /\ [][NextChangedMain]_vars

\* the changed-file list: argv's, or the diff's when argv gives none or "."
ChangedList ==
  IF run_changed.files = <<>> \/ run_changed.files = << <<".">> >>
    THEN run_changed.git ELSE run_changed.files

\* the agents that own a changed file and define the task
ChangedAgentsWithTask ==
  {P \in Range(run_changed.projects) :
     /\ \E f \in Range(ChangedList) : Owns(P, f)
     /\ run_changed.task \in run_changed.tasks[P]}

\* C18: the task is run in each agent that owns a changed file and defines
\* the task, and in no other agent; with an empty changed-file list, or one
\* that matches no agent, nothing is run.
C18_EachChangedAgent ==
  /\ Range(run_changed.executed) \subseteq ChangedAgentsWithTask
  /\ run_changed.pc = "returned" => ChangedAgentsWithTask \subseteq Range(run_changed.executed)

\* the task is run in no agent without a changed file or without the task
C18_NoOtherAgent ==
  Range(run_changed.executed) \subseteq ChangedAgentsWithTask

\* without nested projects every changed agent with the task is served
C18_EachChangedAgentUnnested ==
  (/\ run_changed.pc = "returned"
   /\ \A P, Q \in Range(run_changed.projects) : P # Q => ~IsPrefix(P, Q)) =>
    ChangedAgentsWithTask = Range(run_changed.executed)

\* ======================================================================
\* scripts/generate_docs.py: main and generate_docs
\* ======================================================================
MaxCandidates == 2

\* a project discover_projects returns: its directory name, whether it has
\* a pyproject.toml and whether its docs source directory exists
Candidates == [name : {"agent1", "agent2"}, pyproject : BOOLEAN, source : BOOLEAN]

\* the --agents option: absent, given without a name, or with names
AgentFilters == {<<>>, <<"agent1">>, <<"agent3">>}

\* --agents-only and --unified-only exclude each other (line 265)
DocsFlags ==
  {[agents_only |-> FALSE, unified_only |-> FALSE],
   [agents_only |-> TRUE, unified_only |-> FALSE],
   [agents_only |-> FALSE, unified_only |-> TRUE]}

InitDocs ==
  /\ ResolverIdle
  /\ agent = Idle
  /\ md_expand = Idle
  /\ md_extract = Idle
  /\ md_check = Idle
  /\ run_all = Idle
  /\ run_changed = Idle
  /\ \E cs \in SeqsUpTo(Candidates, MaxCandidates), af \in AgentFilters, fl \in DocsFlags,
        us \in BOOLEAN :
       docs = [pc |-> "start", args |-> fl, agent_filter |-> af, discovered |-> cs,
               unified_source_exists |-> us, build_agents |-> TRUE, build_unified |-> TRUE,
               agent_dirs |-> <<>>, i |-> 1, built_agents |-> <<>>, built_unified |-> FALSE,
               raised |-> "none"]

notDocs == <<resolver, agent, md_expand, md_extract, md_check, run_all, run_changed>>

\* lines 325-326: what to build
docs_main ==
  /\ docs.pc = "start"
  /\ docs' = [docs EXCEPT !.pc = "generate",
                          !.build_agents = ~docs.args.unified_only,
                          !.build_unified = ~docs.args.agents_only]
  /\ UNCHANGED notDocs

\* lines 289-292: the project is kept
is_agent_dir(candidate, agent_filter) ==
  /\ candidate.pyproject
  /\ agent_filter # <<>> => candidate.name \in Range(agent_filter)

\* lines 284-301: the agent directories; SystemExit when there is none
docs_discover ==
  /\ docs.pc = "generate"
  /\ LET keep(c) == is_agent_dir(c, docs.agent_filter)
         dirs == SelectSeq(docs.discovered, keep)
     IN  docs' = IF dirs = <<>>
                   THEN [docs EXCEPT !.pc = "raised", !.raised = "SystemExit"]
                   ELSE [docs EXCEPT !.pc = "build", !.agent_dirs = dirs]
  /\ UNCHANGED notDocs

\* lines 311-312 and 121-154: one agent of build_agent_docs, skipped when
\* its docs source is missing
docs_build_agent ==
  /\ docs.pc = "build"
  /\ docs.build_agents
  /\ docs.i <= Len(docs.agent_dirs)
  /\ docs' = [docs EXCEPT
                !.i = @ + 1,
                !.built_agents = IF docs.agent_dirs[docs.i].source
                                   THEN Append(@, docs.agent_dirs[docs.i].name) ELSE @]
  /\ UNCHANGED notDocs

\* lines 314-315 and 165-197: the unified site, skipped when its source is
\* missing
docs_build_unified ==
  /\ docs.pc = "build"
  /\ ~docs.build_agents \/ docs.i > Len(docs.agent_dirs)
  /\ docs' = [docs EXCEPT
                !.pc = "returned",
                !.built_unified = docs.build_unified /\ docs.unified_source_exists]
  /\ UNCHANGED notDocs

NextDocs == docs_main \/ docs_discover \/ docs_build_agent \/ docs_build_unified

SpecDocs == InitDocs /\ [][NextDocs]_vars

\* the names of the discovered agents that have a pyproject.toml, pass the
\* --agents filter and have a docs source
Buildable ==
  {docs.discovered[k].name :
     k \in {j \in 1..Len(docs.discovered) :
              /\ docs.discovered[j].pyproject
              /\ docs.discovered[j].source
              /\ docs.agent_filter # <<>> => docs.discovered[j].name \in Range(docs.agent_filter)}}

\* C19: the per-agent sites are built exactly when build_agents is set and
\* the unified site exactly when build_unified is set and its source
\* exists, whatever the number of agents found or matched.
C19_FlagsDecideBuilds ==
  docs.pc \in {"returned", "raised"} =>
    /\ Range(docs.built_agents) = (IF ~docs.args.unified_only THEN Buildable ELSE {})
    /\ docs.built_unified = (~docs.args.agents_only /\ docs.unified_source_exists)

\* the same when at least one agent directory is kept
C19_FlagsDecideBuildsWithAgents ==
  docs.pc = "returned" =>
    /\ Range(docs.built_agents) = (IF ~docs.args.unified_only THEN Buildable ELSE {})
    /\ docs.built_unified = (~docs.args.agents_only /\ docs.unified_source_exists)

====
